---------------------------- MODULE Spec2Model ----------------------------
(***************************************************************************)
(* Model of core.py of pelican-ipynb: the cell slicer (SubCell), the       *)
(* template expander of get_html_from_filepath and the CSS finisher        *)
(* (parse_css).  Python strings are sequences of one-character strings,    *)
(* so that find, replace, startswith, lower and the regular expressions    *)
(* are computed on characters as the code computes them.                   *)
(***************************************************************************)
EXTENDS Integers, Sequences, FiniteSets, TLC

VARIABLES
    \* SubCell.preprocess
    nbs,          \* heap of notebook objects: id -> sequence of cell object ids
    srcs,         \* heap of cell objects: id -> source text of the cell
    nb,           \* id of the notebook handed to preprocess
    ret,          \* id of the notebook preprocess returned (0 before the call)
    start,        \* SubCell.start: None or <<integer>>
    end,          \* SubCell.end: None or <<integer>>
    orig,         \* cell sources of nb when it was handed over (history)
    slicePc,
    \* parse_css
    content,      \* raw HTML handed to parse_css
    info,         \* info['inlining']['css']: sequence of stylesheet strings
    fix_css,
    ignore_css,
    html,         \* string parse_css returned (None before the call)
    cssPc,
    \* template expansion loop of get_html_from_filepath
    doc,          \* the div.text_cell_render nodes of the soup, in document order
    mp4_options,  \* local of get_html_from_filepath, set before the loop
    video_id,     \* local of get_html_from_filepath, bound by a !youtube cell
    rendered,     \* the nodes already visited, as the loop left them
    pc,           \* "loop", "done" or "failed"
    err           \* the exception that ended the conversion

sliceVars == <<nbs, srcs, nb, ret, start, end, orig, slicePc>>
cssVars == <<content, info, fix_css, ignore_css, html, cssPc>>
expandVars == <<doc, mp4_options, video_id, rendered, pc, err>>
vars == <<sliceVars, cssVars, expandVars>>

----------------------------------------------------------------------------
\* Bounds of the model.

\* most cells of a notebook handed to SubCell.preprocess
MaxNbCells == 3
\* how far a slice bound may lie beyond the ends of the cell list
MaxOvershoot == 2

----------------------------------------------------------------------------
\* Python values and str methods.

None == <<>>

Min(S) == CHOOSE x \in S : \A y \in S : x <= y

SeqsUpTo(S, k) == UNION {[1..m -> S] : m \in 0..k}

\* s[i:i+len(sub)] == sub, i counted from 1
MatchAt(s, sub, i) ==
    /\ i + Len(sub) - 1 <= Len(s)
    /\ \A k \in 1..Len(sub) : s[i + k - 1] = sub[k]

\* str.find: index from 0 of the first occurrence, -1 when there is none
Find(s, sub) ==
    LET hits == {i \in 1..(Len(s) - Len(sub) + 1) : MatchAt(s, sub, i)}
    IN IF hits = {} THEN -1 ELSE Min(hits) - 1

\* sub in s
Contains(s, sub) == Find(s, sub) >= 0

\* str.startswith
StartsWith(s, sub) == MatchAt(s, sub, 1)

\* the part of s from index i on (from 1), every occurrence of old replaced
RECURSIVE ReplaceFrom(_, _, _, _)
ReplaceFrom(s, old, new, i) ==
    LET hits == {j \in i..(Len(s) - Len(old) + 1) : MatchAt(s, old, j)}
    IN IF hits = {} THEN SubSeq(s, i, Len(s))
       ELSE SubSeq(s, i, Min(hits) - 1) \o new
                \o ReplaceFrom(s, old, new, Min(hits) + Len(old))

\* str.replace with a non-empty old: every occurrence, left to right
Replace(s, old, new) == ReplaceFrom(s, old, new, 1)

UpperCase == <<"A","B","C","D","E","F","G","H","I","J","K","L","M","N","O","P","Q","R","S","T","U","V","W","X","Y","Z">>
LowerCase == <<"a","b","c","d","e","f","g","h","i","j","k","l","m","n","o","p","q","r","s","t","u","v","w","x","y","z">>

LowerChar(c) ==
    IF \E k \in 1..Len(UpperCase) : UpperCase[k] = c
    THEN LowerCase[CHOOSE k \in 1..Len(UpperCase) : UpperCase[k] = c]
    ELSE c

\* str.lower
Lower(s) == [k \in 1..Len(s) |-> LowerChar(s[k])]

----------------------------------------------------------------------------
\* SubCell: the preprocessor that slices a notebook by cells.

\* SliceIndex.validate: None or an integer
SliceIndex == {None} \cup {<<k>> : k \in -(MaxNbCells + MaxOvershoot)..(MaxNbCells + MaxOvershoot)}

AdjustIndexNoNegative(bound, len, default) ==
    IF bound = None THEN default
    ELSE IF bound[1] < 0 THEN 0
         ELSE (IF bound[1] >= len THEN len ELSE bound[1])

\* a bound of a slice of a list of length len, as list.__getitem__ adjusts it
AdjustIndex(bound, len, default) ==
    IF bound = None THEN default
    ELSE IF bound[1] < 0
         THEN (IF bound[1] + len < 0 THEN 0 ELSE bound[1] + len)
         ELSE (IF bound[1] >= len THEN len ELSE bound[1])

\* cells[start:end]
PySlice(cells, lo, hi) ==
    LET first == AdjustIndex(lo, Len(cells), 0)
        stop == AdjustIndex(hi, Len(cells), Len(cells))
    IN IF first < stop THEN SubSeq(cells, first + 1, stop) ELSE <<>>

\* nbc = nb: no copy, the same notebook object
NoCopy(id) == [nbs |-> nbs, srcs |-> srcs, id |-> id]

\* deepcopy(nb): a new notebook object whose cells are new cell objects
DeepCopy(id) ==
    LET old == nbs[id]
        fresh == [k \in 1..Len(old) |-> Len(srcs) + k]
    IN [nbs |-> Append(nbs, fresh),
        srcs |-> srcs \o [k \in 1..Len(old) |-> srcs[old[k]]],
        id |-> Len(nbs) + 1]

\* the sources of the cells of a notebook object
Sources(id) == [k \in 1..Len(nbs[id]) |-> srcs[nbs[id][k]]]

CellSources == {"a", "b", "c"}

InitSlice ==
    /\ srcs \in SeqsUpTo(CellSources, MaxNbCells)
    /\ nbs = << [k \in 1..Len(srcs) |-> k] >>
    /\ nb = 1
    /\ ret = 0
    /\ start \in SliceIndex
    /\ end \in SliceIndex
    /\ orig = srcs
    /\ slicePc = "config"

\* SubCell.preprocess(nb, resources)
Preprocess ==
    /\ slicePc = "config"
    /\ LET nbc == DeepCopy(nb)
       IN /\ nbs' = [nbc.nbs EXCEPT ![nbc.id] = PySlice(@, start, end)]
          /\ srcs' = nbc.srcs
          /\ ret' = nbc.id
    /\ slicePc' = "sliced"
    /\ UNCHANGED <<nb, start, end, orig>>

\* a preprocessor after SubCell rewrites a cell of the notebook it was given
DownstreamEdit ==
    /\ slicePc \in {"sliced", "edited"}
    /\ \E k \in 1..Len(nbs[ret]) :
          /\ srcs[nbs[ret][k]] # "edited"
          /\ srcs' = [srcs EXCEPT ![nbs[ret][k]] = "edited"]
    /\ slicePc' = "edited"
    /\ UNCHANGED <<nbs, nb, ret, start, end, orig>>

\* a preprocessor after SubCell drops the first cell of the notebook it was given
DownstreamDrop ==
    /\ slicePc \in {"sliced", "edited"}
    /\ nbs[ret] # <<>>
    /\ nbs' = [nbs EXCEPT ![ret] = Tail(@)]
    /\ slicePc' = "edited"
    /\ UNCHANGED <<srcs, nb, ret, start, end, orig>>

----------------------------------------------------------------------------
\* get_html_from_filepath with BeautifulSoup present: the loop over the rendered
\* markdown cells.  The passes before it (lines 127-161) act on div.input,
\* div.prompt and table nodes, which are no part of what the loop reads or
\* rewrites in a div.text_cell_render.

\* most list items of one markdown cell
MaxItems == 4
\* most markdown cells of a document of directive cells
MaxDocCells == 3

\* U+3000, one character of a Python string
IDEOGRAPHIC_SPACE == "U+3000"

template_settings == {<<"!","a","r","t","i","c","l","e">>, <<"!","q","u","o","t","e">>, <<"!","m","p","4">>, <<"!","i","m","a","g","e">>, <<"!","y","o","u","t","u","b","e">>}

DefaultMp4Options == <<"l","o","o","p"," ","a","u","t","o","p","l","a","y"," ","m","u","t","e","d"," ","p","l","a","y","s","i","n","l","i","n","e">>

Unbound == <<"unbound local">>

\* the outcome of a step: the exception it raised, or what it produced
NoError == "none"
Raise(kind) == [raised |-> kind]
Html(fragment) == [raised |-> NoError, html |-> fragment]

\* nothing was appended to the cell; an empty html_str was appended
NoFragment == [tag |-> "none"]
EmptyFragment == [tag |-> "empty"]

Br == [tag |-> "br"]

\* a div.text_cell_render: the text of its first child (None without children),
\* the tag of that child, the tag of its list, the texts of its li nodes and what
\* was appended to it
Cell(first, firstTag, listTag, items) ==
    [first |-> first, firstTag |-> firstTag, listTag |-> listTag, items |-> items,
     appended |-> NoFragment]

\* CollectItem with no-loop removing the word loop and not the space after it
CollectItemSloppy(acc, keyword, text) ==
    IF text = <<"d","a","r","k">>
    THEN [acc EXCEPT !.style_str = @ \o <<"m","i","x","-","b","l","e","n","d","-","m","o","d","e",":"," ","i","n","i","t","i","a","l",";">>]
    ELSE IF StartsWith(text, <<"s","t","y","l","e",":">>)
    THEN [acc EXCEPT !.style_str = @ \o Replace(text, <<"s","t","y","l","e",":">>, <<>>)]
    ELSE IF keyword = <<"!","m","p","4">> /\ Contains(text, <<"o","p","t","i","o","n","s",":">>)
    THEN LET dashed == Replace(text, <<"_">>, <<"-">>)
             o1 == IF Contains(dashed, <<"n","o","-","l","o","o","p">>)
                   THEN Replace(acc.mp4_options, <<"l","o","o","p">>, <<>>)
                   ELSE acc.mp4_options
             o2 == IF Contains(dashed, <<"n","o","-","a","u","t","o","p","l","a","y">>)
                   THEN Replace(o1, <<"a","u","t","o","p","l","a","y"," ">>, <<>>)
                   ELSE o1
             o3 == IF Contains(text, <<"c","o","n","t","r","o","l","s">>) THEN o2 \o <<" ","c","o","n","t","r","o","l","s">> ELSE o2
         IN [acc EXCEPT !.mp4_options = o3]
    ELSE [acc EXCEPT !.values = Append(@, text)]

\* lines 181-199, one li: the accumulated values, style_str and mp4_options
CollectItem(acc, keyword, text) ==
    IF text = <<"d","a","r","k">>
    THEN [acc EXCEPT !.style_str = @ \o <<"m","i","x","-","b","l","e","n","d","-","m","o","d","e",":"," ","i","n","i","t","i","a","l",";">>]
    ELSE IF StartsWith(text, <<"s","t","y","l","e",":">>)
    THEN [acc EXCEPT !.style_str = @ \o Replace(text, <<"s","t","y","l","e",":">>, <<>>)]
    ELSE IF keyword = <<"!","m","p","4">> /\ Contains(text, <<"o","p","t","i","o","n","s",":">>)
    THEN LET dashed == Replace(text, <<"_">>, <<"-">>)
             o1 == IF Contains(dashed, <<"n","o","-","l","o","o","p">>)
                   THEN Replace(acc.mp4_options, <<"l","o","o","p"," ">>, <<>>)
                   ELSE acc.mp4_options
             o2 == IF Contains(dashed, <<"n","o","-","a","u","t","o","p","l","a","y">>)
                   THEN Replace(o1, <<"a","u","t","o","p","l","a","y"," ">>, <<>>)
                   ELSE o1
             o3 == IF Contains(text, <<"c","o","n","t","r","o","l","s">>) THEN o2 \o <<" ","c","o","n","t","r","o","l","s">> ELSE o2
         IN [acc EXCEPT !.mp4_options = o3]
    ELSE [acc EXCEPT !.values = Append(@, text)]

RECURSIVE CollectItems(_, _, _, _)
CollectItems(acc, keyword, items, k) ==
    IF k > Len(items) THEN acc
    ELSE CollectItems(CollectItem(acc, keyword, items[k]), keyword, items, k + 1)

\* a li loop that starts every cell from the default option string
CollectPerCell(cell, options) ==
    LET acc0 == [values |-> <<>>, style_str |-> <<>>, mp4_options |-> DefaultMp4Options]
    IN IF cell.first # None /\ cell.first \in template_settings
       THEN CollectItems(acc0, cell.first, cell.items, 1)
       ELSE acc0

\* lines 166-202: what the li loop of one cell collects, starting from the
\* mp4_options the previous cells left
Collect(cell, options) ==
    LET acc0 == [values |-> <<>>, style_str |-> <<>>, mp4_options |-> options]
    IN IF cell.first # None /\ cell.first \in template_settings
       THEN CollectItems(acc0, cell.first, cell.items, 1)
       ELSE acc0

\* line 201
StyleAttr(style_str) ==
    IF style_str # <<>> THEN <<"s","t","y","l","e","=","\"">> \o style_str \o <<"\"">> ELSE <<>>


\* lines 208-222
Article(values, style) ==
    IF Len(values) # 3 THEN Raise("ValueError")
    ELSE LET title == values[1]
             anchor_link == Replace(Replace(Replace(title, <<" ">>, <<" ">>),
                                            <<IDEOGRAPHIC_SPACE>>, <<" ">>), <<" ">>, <<"-">>)
         IN Html([tag |-> "article", id |-> anchor_link, href |-> values[2],
                  title |-> title,
                  img |-> <<"{","f","i","l","e","n","a","m","e","}","i","m","a","g","e","s","/","d","i","g","e","s","t","s","/">> \o values[3],
                  style |-> style])

\* a !quote that renders nothing unless it has one or two values
QuoteStrict(values) ==
    IF Len(values) \in {1, 2}
    THEN Html([tag |-> "blockquote", quote |-> values[1],
               author_intro |-> IF Len(values) > 1 THEN values[2] ELSE <<>>])
    ELSE Html(EmptyFragment)

\* lines 223-238
Quote(values) ==
    Html([tag |-> "blockquote", quote |-> values[1],
          author_intro |-> IF Len(values) > 1 THEN values[2] ELSE <<>>])

\* lines 244-251: the loop over two values
Mp4Guess(values) ==
    LET Step(acc, v0) ==
            LET v == Lower(v0)
            IN IF Contains(v, <<".","m","p","4">>) THEN [acc EXCEPT !.mp4_file = v]
               ELSE IF \/ Contains(v, <<".","j","p","g">>) \/ Contains(v, <<".","p","n","g">>)
                       \/ Contains(v, <<".","s","v","g">>) \/ Contains(v, <<".","j","p","e","g">>)
               THEN [acc EXCEPT !.image_file = v]
               ELSE [acc EXCEPT !.description = v]
        empty == [mp4_file |-> <<>>, image_file |-> <<>>, description |-> <<>>,
                  source_link |-> <<>>]
    IN Step(Step(empty, values[1]), values[2])

\* Mp4Fields without the assertion on the first of three values
Mp4FieldsNoAssert(values) ==
    LET empty == [mp4_file |-> <<>>, image_file |-> <<>>, description |-> <<>>,
                  source_link |-> <<>>]
    IN IF Len(values) = 1 THEN Html([empty EXCEPT !.mp4_file = values[1]])
       ELSE IF Len(values) = 2 THEN Html(Mp4Guess(values))
       ELSE IF Len(values) = 3
       THEN Html([empty EXCEPT !.mp4_file = values[1], !.image_file = values[2],
                               !.description = values[3]])
       ELSE IF Len(values) = 4
       THEN IF ~Contains(values[1], <<".","m","p","4">>) THEN Raise("AssertionError")
            ELSE IF ~Contains(values[4], <<"h","t","t","p">>) THEN Raise("AssertionError")
            ELSE Html([mp4_file |-> values[1], image_file |-> values[2],
                       description |-> values[3], source_link |-> values[4]])
       ELSE Html(empty)

\* lines 240-258: the fields of the video, or the assertion that failed
Mp4Fields(values) ==
    LET empty == [mp4_file |-> <<>>, image_file |-> <<>>, description |-> <<>>,
                  source_link |-> <<>>]
    IN IF Len(values) = 1 THEN Html([empty EXCEPT !.mp4_file = values[1]])
       ELSE IF Len(values) = 2 THEN Html(Mp4Guess(values))
       ELSE IF Len(values) = 3
       THEN IF Contains(values[1], <<".","m","p","4">>)
            THEN Html([empty EXCEPT !.mp4_file = values[1], !.image_file = values[2],
                                    !.description = values[3]])
            ELSE Raise("AssertionError")
       ELSE IF Len(values) = 4
       THEN IF ~Contains(values[1], <<".","m","p","4">>) THEN Raise("AssertionError")
            ELSE IF ~Contains(values[4], <<"h","t","t","p">>) THEN Raise("AssertionError")
            ELSE Html([mp4_file |-> values[1], image_file |-> values[2],
                       description |-> values[3], source_link |-> values[4]])
       ELSE Html(empty)

\* lines 260-274 and 328-337: the caption below a video
Caption(description, source_link) ==
    IF description # <<>>
    THEN [tag |-> "center", text |-> description, source_link |-> source_link]
    ELSE Br

\* lines 239-283
Mp4(values, options, style) ==
    LET f == Mp4Fields(values)
    IN IF f.raised # NoError THEN f
       ELSE Html([tag |-> "video", options |-> options,
                  poster |-> <<"{","f","i","l","e","n","a","m","e","}">> \o f.html.image_file,
                  class |-> <<>>, style |-> style,
                  src |-> <<"{","f","i","l","e","n","a","m","e","}">> \o f.html.mp4_file,
                  caption |-> Caption(f.html.description, f.html.source_link)])

\* lines 284-314
Image(values, style) ==
    IF Len(values) = 1
    THEN Html([tag |-> "img", class |-> <<>>, style |-> style,
               src |-> <<"{","f","i","l","e","n","a","m","e","}","i","m","a","g","e","s","/">> \o values[1], caption |-> NoFragment])
    ELSE Html([tag |-> "img", class |-> <<>>, style |-> style,
               src |-> <<"{","f","i","l","e","n","a","m","e","}","/","i","m","a","g","e","s","/">> \o values[1],
               caption |-> [tag |-> "center", text |-> values[2],
                            source_link |-> IF Len(values) \in {3, 4} THEN values[3] ELSE <<>>,
                            source_name |-> IF Len(values) = 4 THEN values[4] ELSE <<>>]])

\* a period_str that gives every start an end
PeriodStrAlwaysEnd(values) ==
    IF Len(values) = 3 THEN <<"?","s","t","a","r","t","=">> \o values[3] \o <<"&","e","n","d","=">>
    ELSE IF Len(values) = 4 THEN <<"?","s","t","a","r","t","=">> \o values[3] \o <<"&","e","n","d","=">> \o values[4]
    ELSE <<>>

\* lines 317-326: period_str
PeriodStr(values) ==
    IF Len(values) = 3 THEN <<"?","s","t","a","r","t","=">> \o values[3]
    ELSE IF Len(values) = 4 THEN <<"?","s","t","a","r","t","=">> \o values[3] \o <<"&","e","n","d","=">> \o values[4]
    ELSE <<>>

\* lines 315-349; vid is the video_id an earlier cell left bound, or Unbound
Youtube(values, vid) ==
    LET id == IF Len(values) \in 1..4 THEN values[1] ELSE vid
        description == IF Len(values) \in 2..4 THEN values[2] ELSE <<>>
    IN IF id = Unbound THEN Raise("UnboundLocalError")
       ELSE Html([tag |-> "iframe",
                  src |-> <<"h","t","t","p","s",":","/","/","w","w","w",".","y","o","u","t","u","b","e","-","n","o","c","o","o","k","i","e",".","c","o","m","/","e","m","b","e","d","/">> \o id \o PeriodStr(values),
                  caption |-> Caption(description, <<>>)])

\* lines 206-349: html_str of a cell with values, or the exception
HtmlStr(keyword, values, options, style, vid) ==
    IF keyword = <<"!","a","r","t","i","c","l","e">> THEN Article(values, style)
    ELSE IF keyword = <<"!","q","u","o","t","e">> THEN Quote(values)
    ELSE IF keyword = <<"!","m","p","4">> THEN Mp4(values, options, style)
    ELSE IF keyword = <<"!","i","m","a","g","e">> THEN Image(values, style)
    ELSE Youtube(values, vid)

\* lines 351-358: the paragraph and the list leave the cell, the fragment enters;
\* find returns None for a tag the cell does not have
Rewrite(cell, fragment) ==
    IF cell.firstTag # "p" \/ cell.listTag # "ul" THEN Raise("AttributeError")
    ELSE Html([cell EXCEPT !.first = None, !.firstTag = "none", !.listTag = "none",
                           !.items = <<>>, !.appended = fragment])

\* a loop that rewrites a cell even when it collected no values
VisitAlways(cell, options, vid) ==
    LET got == Collect(cell, options)
    IN [node |-> Rewrite(cell, EmptyFragment), mp4_options |-> got.mp4_options, video_id |-> vid]

\* lines 165-358, one pass of the loop: the node as the pass leaves it (or the
\* exception), and the locals it leaves to the next pass
Visit(cell, options, vid) ==
    LET got == Collect(cell, options)
        style == StyleAttr(got.style_str)
        str == HtmlStr(cell.first, got.values, got.mp4_options, style, vid)
    IN IF got.values = <<>>
       THEN [node |-> Html(cell), mp4_options |-> got.mp4_options, video_id |-> vid]
       ELSE [node |-> IF str.raised # NoError THEN str ELSE Rewrite(cell, str.html),
             mp4_options |-> got.mp4_options,
             video_id |-> IF cell.first = <<"!","y","o","u","t","u","b","e">> /\ Len(got.values) \in 1..4
                          THEN got.values[1] ELSE vid]

\* the next cell of the loop
Next_cell == doc[Len(rendered) + 1]

\* one pass of the loop at line 165; after the last one the function returns
VisitCell ==
    /\ pc = "loop"
    /\ Len(rendered) < Len(doc)
    /\ LET v == Visit(Next_cell, mp4_options, video_id)
       IN /\ v.node.raised = NoError
          /\ rendered' = Append(rendered, v.node.html)
          /\ mp4_options' = v.mp4_options
          /\ video_id' = v.video_id
          /\ pc' = IF Len(rendered) + 1 = Len(doc) THEN "done" ELSE "loop"
    /\ UNCHANGED <<doc, err>>

\* a pass of the loop raises: get_html_from_filepath returns nothing
VisitRaises ==
    /\ pc = "loop"
    /\ Len(rendered) < Len(doc)
    /\ LET v == Visit(Next_cell, mp4_options, video_id)
       IN /\ v.node.raised # NoError
          /\ err' = v.node.raised
          /\ mp4_options' = v.mp4_options
    /\ pc' = "failed"
    /\ UNCHANGED <<doc, video_id, rendered>>


----------------------------------------------------------------------------
\* parse_css: the CSS finisher.

\* most pieces of one stylesheet of info['inlining']['css']
MaxCssPieces == 3

\* lines 59-88; the JavaScript between the tags is one symbol
MathJaxBootstrap == "lines 60-86"
LATEX_CUSTOM_SCRIPT ==
    <<"\n","<","s","c","r","i","p","t"," ","t","y","p","e","=","\"","t","e","x","t","/","j","a","v","a","s","c","r","i","p","t","\"",">">> \o <<MathJaxBootstrap>> \o <<"<","/","s","c","r","i","p","t",">","\n">>

NotebookMarker == <<"/","*","!","\n","*","\n","*"," ","I","P","y","t","h","o","n"," ","n","o","t","e","b","o","o","k","\n","*","\n","*","/">>
WebappMarker == <<"/","*","!","\n","*","\n","*"," ","I","P","y","t","h","o","n"," ","n","o","t","e","b","o","o","k"," ","w","e","b","a","p","p","\n","*","\n","*","/">>

\* lines 372-373
style_tag(styles) == <<"<","s","t","y","l","e"," ","t","y","p","e","=","\"","t","e","x","t","/","c","s","s","\"",">">> \o styles \o <<"<","/","s","t","y","l","e",">">>

Digits == {"0", "1", "2", "3", "4", "5", "6", "7", "8", "9"}
LowerLetters == {LowerCase[k] : k \in 1..Len(LowerCase)}
\* [a-z0-9,._ ]
SelectorChars == LowerLetters \cup Digits \cup {",", ".", "_", " "}
\* [a-z0-9:;%.#\-\s\n]
DeclarationChars ==
    LowerLetters \cup Digits \cup {":", ";", "%", ".", "#", "-", " ", "\t", "\n", "\r", "\f"}

\* the first index from i on whose character is not of the class
RunEnd(s, i, class) ==
    Min({j \in i..Len(s) : s[j] \notin class} \cup {Len(s) + 1})

\* where a match of color\:\#0+(;)? that begins at i ends, 0 when none does
ColorMatchEnd(s, i) ==
    IF ~MatchAt(s, <<"c","o","l","o","r",":","#">>, i) THEN 0
    ELSE LET z == RunEnd(s, i + 7, {"0"})
         IN IF z = i + 7 THEN 0
            ELSE IF z <= Len(s) /\ s[z] = ";" THEN z ELSE z - 1

\* where a match of \.rendered_html[a-z0-9,._ ]*\{[a-z0-9:;%.#\-\s\n]+\} that
\* begins at i ends, 0 when none does
RuleMatchEnd(s, i) ==
    IF ~MatchAt(s, <<".","r","e","n","d","e","r","e","d","_","h","t","m","l">>, i) THEN 0
    ELSE LET b == RunEnd(s, i + 14, SelectorChars)
         IN IF ~(b <= Len(s) /\ s[b] = "{") THEN 0
            ELSE LET e == RunEnd(s, b + 1, DeclarationChars)
                 IN IF e > b + 1 /\ e <= Len(s) /\ s[e] = "}" THEN e ELSE 0

\* re.sub(r'color\:\#0+(;)?', '', s) from index i on: the matches, leftmost
\* first, are removed
RECURSIVE SubColor(_, _)
SubColor(s, i) ==
    LET hits == {j \in i..Len(s) : ColorMatchEnd(s, j) > 0}
    IN IF hits = {} THEN SubSeq(s, i, Len(s))
       ELSE SubSeq(s, i, Min(hits) - 1) \o SubColor(s, ColorMatchEnd(s, Min(hits)) + 1)

\* re.sub(r'\.rendered_html[a-z0-9,._ ]*\{[a-z0-9:;%.#\-\s\n]+\}', '', s) from
\* index i on
RECURSIVE SubRule(_, _)
SubRule(s, i) ==
    LET hits == {j \in i..Len(s) : RuleMatchEnd(s, j) > 0}
    IN IF hits = {} THEN SubSeq(s, i, Len(s))
       ELSE SubSeq(s, i, Min(hits) - 1) \o SubRule(s, RuleMatchEnd(s, Min(hits)) + 1)

\* s[index:] and s[:index], index >= 0
From(s, index) == SubSeq(s, index + 1, Len(s))
Upto(s, index) == SubSeq(s, 1, index)

\* lines 381-386: the two cuts at the marker comments
filter_css_cut(style) ==
    LET index1 == Find(style, NotebookMarker)
        style1 == IF index1 > 0 THEN From(style, index1) ELSE style
        index2 == Find(style1, WebappMarker)
    IN IF index2 > 0 THEN Upto(style1, index2) ELSE style1

\* lines 375-390
filter_css(style) ==
    style_tag(SubRule(SubColor(filter_css_cut(style), 1), 1))

\* '\n'.join(blocks), from block k on
RECURSIVE JoinLines(_, _)
JoinLines(blocks, k) ==
    IF k > Len(blocks) THEN <<>>
    ELSE IF k = Len(blocks) THEN blocks[k]
    ELSE blocks[k] \o <<"\n">> \o JoinLines(blocks, k + 1)

\* lines 397 and 399: the style blocks of the stylesheets
FilteredBlocks(css) == [k \in 1..Len(css) |-> filter_css(css[k])]
PlainBlocks(css) == [k \in 1..Len(css) |-> style_tag(css[k])]

\* a finisher that puts the notebook's CSS in front whatever ignore_css says
parse_css_keep(c, css, fix, ignore) ==
    (IF fix THEN JoinLines(FilteredBlocks(css), 1) ELSE JoinLines(PlainBlocks(css), 1))
        \o c \o LATEX_CUSTOM_SCRIPT

\* lines 392-401
parse_css(c, css, fix, ignore) ==
    IF ignore THEN c \o LATEX_CUSTOM_SCRIPT
    ELSE (IF fix THEN JoinLines(FilteredBlocks(css), 1) ELSE JoinLines(PlainBlocks(css), 1))
             \o c \o LATEX_CUSTOM_SCRIPT

RECURSIVE Concat(_)
Concat(pieces) == IF pieces = <<>> THEN <<>> ELSE Head(pieces) \o Concat(Tail(pieces))

\* pieces of a stylesheet: the two marker comments, a rule, a black colour
\* declaration, a .rendered_html rule
CssPieces ==
    {NotebookMarker, WebappMarker, <<"b","{","}">>, <<"c","o","l","o","r",":","#","0","0","0",";">>, <<".","r","e","n","d","e","r","e","d","_","h","t","m","l"," ","p","{","x",":","1","}">>}

Stylesheets == {Concat(p) : p \in SeqsUpTo(CssPieces, MaxCssPieces)}

\* what info['inlining']['css'] holds: no stylesheet, one, or one and a second
CssLists ==
    {<<>>} \cup {<<f>> : f \in Stylesheets}
    \cup {<<f, g>> : f \in Stylesheets, g \in {<<"b","{","}">>, WebappMarker \o <<"b","{","}">>}}

\* the exporter's HTML: nothing, a paragraph, a paragraph and the scoped style
\* tag of a rendered table
Contents == {<<>>, <<"<","p",">","x","<","/","p",">">>, <<"<","p",">","x","<","/","p",">","<","s","t","y","l","e"," ","s","c","o","p","e","d",">","t","d","{","}","<","/","s","t","y","l","e",">">>}

CssIdle ==
    /\ content = <<>> /\ info = <<>> /\ fix_css = TRUE /\ ignore_css = FALSE
    /\ html = None /\ cssPc = "idle"

InitCss ==
    /\ content \in Contents
    /\ info \in CssLists
    /\ fix_css \in BOOLEAN
    /\ ignore_css \in BOOLEAN
    /\ html = None
    /\ cssPc = "call"

\* parse_css(content, info, fix_css, ignore_css)
ParseCss ==
    /\ cssPc = "call"
    /\ html' = parse_css(content, info, fix_css, ignore_css)
    /\ cssPc' = "returned"
    /\ UNCHANGED <<content, info, fix_css, ignore_css>>

----------------------------------------------------------------------------
\* The specifications.

\* the variables of SubCell before any notebook is handed to it
SliceIdle ==
    /\ nbs = << <<>> >> /\ srcs = <<>> /\ nb = 1 /\ ret = 0
    /\ start = <<0>> /\ end = None /\ orig = <<>> /\ slicePc = "idle"

\* the variables of the template expansion before any document is converted
ExpandIdle ==
    /\ doc = <<>> /\ mp4_options = DefaultMp4Options /\ video_id = Unbound
    /\ rendered = <<>> /\ pc = "idle" /\ err = NoError

\* line 164 and the soup of line 126
InitExpand(docs) ==
    /\ doc \in docs
    /\ mp4_options = DefaultMp4Options
    /\ video_id = Unbound
    /\ rendered = <<>>
    /\ pc = IF doc = <<>> THEN "done" ELSE "loop"
    /\ err = NoError

\* texts of list items: a video file, the link of an image file, and the items
\* the loop diverts
ItemTexts == {<<"A",".","m","p","4">>, <<"h","t","t","p",".","p","n","g">>, <<"d","a","r","k">>, <<"s","t","y","l","e",":","x">>, <<"o","p","t","i","o","n","s",":","c","o","n","t","r","o","l","s">>}

\* a markdown cell of a paragraph and a bullet list, one under a heading, one
\* with a numbered list
Shapes == {<<"p", "ul">>, <<"h2", "ul">>, <<"p", "ol">>}

EmptyCell == Cell(None, "none", "none", <<>>)

DirectiveCells ==
    {Cell(first, shape[1], shape[2], items) :
        first \in template_settings \cup {<<"t","e","x","t">>},
        shape \in Shapes,
        items \in SeqsUpTo(ItemTexts, MaxItems)} \cup {EmptyCell}

\* the cell that follows the directive cell of a document
Trailer == Cell(<<"!","m","p","4">>, "p", "ul", <<<<"A",".","m","p","4">>>>)

\* documents of one directive cell and the trailer
Docs == {<<c, Trailer>> : c \in DirectiveCells}

Init == SliceIdle /\ CssIdle /\ InitExpand(Docs)

Next ==
    \/ VisitCell /\ UNCHANGED <<sliceVars, cssVars>>
    \/ VisitRaises /\ UNCHANGED <<sliceVars, cssVars>>

Spec == Init /\ [][Next]_vars

\* the option items of !mp4 cells, and a value
OptionTexts == {<<"o","p","t","i","o","n","s",":","n","o","-","l","o","o","p">>, <<"o","p","t","i","o","n","s",":","n","o","_","a","u","t","o","p","l","a","y">>, <<"o","p","t","i","o","n","s",":"," ","c","o","n","t","r","o","l","s">>}

\* !mp4 cells with and without option items, !mp4 cells of options alone, a
\* !quote cell whose item mentions options, and a !mp4 cell whose first value
\* names no mp4 file
Mp4Cells ==
    {Cell(<<"!","m","p","4">>, "p", "ul", <<<<"A",".","m","p","4">>>>)}
    \cup {Cell(<<"!","m","p","4">>, "p", "ul", <<<<"A",".","m","p","4">>, o>>) : o \in OptionTexts}
    \cup {Cell(<<"!","m","p","4">>, "p", "ul", <<o>>) : o \in OptionTexts}
    \cup {Cell(<<"!","m","p","4">>, "p", "ul", <<<<"o","p","t","i","o","n","s",":","n","o","-","l","o","o","p"," ","n","o","-","a","u","t","o","p","l","a","y"," ","c","o","n","t","r","o","l","s">>, <<"A",".","m","p","4">>>>),
          Cell(<<"!","q","u","o","t","e">>, "p", "ul", <<<<"o","p","t","i","o","n","s",":","n","o","-","l","o","o","p"," ","c","o","n","t","r","o","l","s">>>>),
          Cell(<<"!","m","p","4">>, "p", "ul", <<<<"x">>, <<"A",".","m","p","4">>, <<"o","p","t","i","o","n","s",":","n","o","-","l","o","o","p">>, <<"x">>>>)}

Mp4Docs == SeqsUpTo(Mp4Cells, MaxDocCells)

InitMp4 == SliceIdle /\ CssIdle /\ InitExpand(Mp4Docs)

SpecMp4 == InitMp4 /\ [][Next]_vars

InitSliceSpec == InitSlice /\ CssIdle /\ ExpandIdle

NextSlice ==
    \/ Preprocess /\ UNCHANGED <<cssVars, expandVars>>
    \/ DownstreamEdit /\ UNCHANGED <<cssVars, expandVars>>
    \/ DownstreamDrop /\ UNCHANGED <<cssVars, expandVars>>

SpecSlice == InitSliceSpec /\ [][NextSlice]_vars

InitCssSpec == SliceIdle /\ InitCss /\ ExpandIdle

NextCss == ParseCss /\ UNCHANGED <<sliceVars, expandVars>>

SpecCss == InitCssSpec /\ [][NextCss]_vars

----------------------------------------------------------------------------
\* Properties of SubCell.preprocess, checked under SpecSlice.

\* position i (from 0) of a list of n cells lies in [start:end]: a bound that
\* is None does not restrict, a negative one counts from the end of the list
InRange(i, n) ==
    /\ \/ start = None
       \/ start[1] >= 0 /\ i >= start[1]
       \/ start[1] < 0 /\ i >= n + start[1]
    /\ \/ end = None
       \/ end[1] >= 0 /\ i < end[1]
       \/ end[1] < 0 /\ i < n + end[1]

\* the cells of a list whose positions lie in [start:end], in their order
MathSlice(cells) ==
    LET idx == {i \in 0..(Len(cells) - 1) : InRange(i, Len(cells))}
    IN [k \in 1..Cardinality(idx) |-> cells[Min(idx) + k]]

\* C1: whatever the bounds (None, negative, beyond the list), preprocess can
\* run, and the notebook it returns holds exactly the cells of the half-open
\* slice [start:end] of the notebook it was given, in their order.
C1_SliceIsHalfOpenRange ==
    /\ slicePc = "config" => ENABLED Preprocess
    /\ slicePc = "sliced" => Sources(ret) = MathSlice(orig)

\* a negative start and an end beyond the list select a proper, non-empty part
C1_Witness ==
    /\ slicePc = "sliced"
    /\ start # None /\ start[1] < 0
    /\ end # None /\ end[1] > Len(orig)
    /\ Sources(ret) # <<>>
    /\ Len(Sources(ret)) < Len(orig)

\* C2: after preprocess, and after whatever later preprocessors do to the
\* notebook it returned, the notebook it was given holds the cells it held
\* before; the returned notebook is another object and shares no cell with it.
C2_OriginalUntouched ==
    slicePc \in {"sliced", "edited"} =>
        /\ Sources(nb) = orig
        /\ ret # nb
        /\ {nbs[ret][k] : k \in 1..Len(nbs[ret])} \cap {nbs[nb][k] : k \in 1..Len(nbs[nb])} = {}

\* a later preprocessor rewrote a cell of the returned notebook
C2_Witness ==
    /\ slicePc = "edited"
    /\ orig # <<>>
    /\ \E k \in 1..Len(nbs[ret]) : srcs[nbs[ret][k]] = "edited"

----------------------------------------------------------------------------
\* Properties of parse_css, checked under SpecCss.

\* how often sub occurs in s
CountOcc(s, sub) == Cardinality({i \in 1..Len(s) : MatchAt(s, sub, i)})

StyleOpen == <<"<","s","t","y","l","e">>

\* C3 as stated: with ignore_css the output holds no style tag and holds the
\* MathJax script block exactly once, whatever the raw HTML.
C3_NoStyleTagAtAll ==
    (cssPc = "returned" /\ ignore_css) =>
        /\ ~Contains(html, StyleOpen)
        /\ CountOcc(html, LATEX_CUSTOM_SCRIPT) = 1

\* C3, amended: with ignore_css the output is the raw HTML followed by the
\* MathJax script block, appended once; it holds the style tags the raw HTML
\* already held and no other, so nothing of info['inlining']['css'].
C3_OnlyTheStyleTagsOfTheContent ==
    (cssPc = "returned" /\ ignore_css) =>
        /\ html = content \o LATEX_CUSTOM_SCRIPT
        /\ CountOcc(html, StyleOpen) = CountOcc(content, StyleOpen)
        /\ CountOcc(html, LATEX_CUSTOM_SCRIPT) = CountOcc(content, LATEX_CUSTOM_SCRIPT) + 1

\* ignore_css with stylesheets to ignore and raw HTML that holds a style tag
C3_Witness ==
    /\ cssPc = "returned" /\ ignore_css
    /\ Len(info) = 2
    /\ Contains(content, StyleOpen)

\* the cuts as C9 states them: everything before the notebook marker goes, and
\* everything from the webapp marker on goes wherever that marker stands
MarkerCut(style) ==
    LET style1 == IF Contains(style, NotebookMarker)
                  THEN From(style, Find(style, NotebookMarker)) ELSE style
    IN IF Contains(style1, WebappMarker)
       THEN Upto(style1, Find(style1, WebappMarker)) ELSE style1

FilteredAsStated(style) ==
    style_tag(SubRule(SubColor(MarkerCut(style), 1), 1))

\* C9: with fix_css and without ignore_css the output is the style blocks, the
\* HTML and the MathJax script in that order, and every style block is its
\* stylesheet cut before the notebook marker and, whenever the webapp marker is
\* present (at the very start too), from the webapp marker on.
C9_CutAtBothMarkers ==
    (cssPc = "returned" /\ ~ignore_css /\ fix_css) =>
        html = JoinLines([k \in 1..Len(info) |-> FilteredAsStated(info[k])], 1)
                   \o content \o LATEX_CUSTOM_SCRIPT

----------------------------------------------------------------------------
\* Properties of the template expansion, checked under Spec and SpecMp4.

\* the list items of a cell that are positional values: not dark, not a
\* style: item, and in a !mp4 cell not an options: item
Positional(cell, text) ==
    /\ text # <<"d","a","r","k">>
    /\ ~StartsWith(text, <<"s","t","y","l","e",":">>)
    /\ ~(cell.first = <<"!","m","p","4">> /\ Contains(text, <<"o","p","t","i","o","n","s",":">>))

IsDirective(cell) == cell.first # None /\ cell.first \in template_settings

Values(cell) ==
    IF IsDirective(cell)
    THEN SelectSeq(cell.items, LAMBDA text : Positional(cell, text))
    ELSE <<>>

\* the loop has left cell k behind, rewritten or not
Passed(k) == k <= Len(rendered)
\* the loop raised in cell k
RaisedIn(k) == pc = "failed" /\ k = Len(rendered) + 1
\* the loop has not come to cell k
Ahead(k) == pc = "loop" /\ k > Len(rendered)

Filename == <<"{","f","i","l","e","n","a","m","e","}">>

\* C4 as stated: a !mp4 cell of three values whose first names no .mp4 file
\* ends the conversion with the assertion error; otherwise its video tag has
\* the image file as poster and the video file as source, exactly as given.
C4_PosterAndSourceAsGiven ==
    \A k \in 1..Len(doc) :
        (doc[k].first = <<"!","m","p","4">> /\ Len(Values(doc[k])) = 3) =>
            IF Contains(Values(doc[k])[1], <<".","m","p","4">>)
            THEN Passed(k) =>
                    /\ rendered[k].appended.tag = "video"
                    /\ rendered[k].appended.poster = Values(doc[k])[2]
                    /\ rendered[k].appended.src = Values(doc[k])[1]
            ELSE ~Passed(k) /\ (~Ahead(k) => RaisedIn(k) /\ err = "AssertionError")

\* C4, amended: a !mp4 cell of three values whose first names no .mp4 file
\* ends the conversion with the assertion error, and nothing is returned;
\* otherwise the poster and the source of its video tag are the literal
\* {filename} followed by the image file and the video file as given.
C4_PosterAndSourceAfterFilename ==
    \A k \in 1..Len(doc) :
        (doc[k].first = <<"!","m","p","4">> /\ Len(Values(doc[k])) = 3) =>
            IF Contains(Values(doc[k])[1], <<".","m","p","4">>)
            THEN Passed(k) =>
                    /\ rendered[k].appended.tag = "video"
                    /\ rendered[k].appended.poster = Filename \o Values(doc[k])[2]
                    /\ rendered[k].appended.src = Filename \o Values(doc[k])[1]
            ELSE ~Passed(k) /\ pc # "done" /\ (~Ahead(k) => RaisedIn(k) /\ err = "AssertionError")

\* a !mp4 cell of a video file, an image file and a description was rewritten
C4_Witness ==
    /\ Len(rendered) >= 1
    /\ doc[1].first = <<"!","m","p","4">>
    /\ Values(doc[1]) = <<<<"A",".","m","p","4">>, <<"h","t","t","p",".","p","n","g">>, <<"h","t","t","p",".","p","n","g">>>>
    /\ rendered[1].appended.poster = <<"{","f","i","l","e","n","a","m","e","}","h","t","t","p",".","p","n","g">>
    /\ rendered[1].appended.tag = "video"

Supported(cell) == IF cell.first = <<"!","a","r","t","i","c","l","e">> THEN {3} ELSE {1, 2}

\* C6 as stated: a !article or !quote cell whose number of values is not one
\* the keyword supports does not fail; an empty fragment takes the place of
\* its paragraph and list, and the loop goes on.
C6_UnsupportedCountRendersNothing ==
    \A k \in 1..Len(doc) :
        (/\ doc[k].first \in {<<"!","a","r","t","i","c","l","e">>, <<"!","q","u","o","t","e">>}
         /\ doc[k].firstTag = "p" /\ doc[k].listTag = "ul"
         /\ Values(doc[k]) # <<>>
         /\ Len(Values(doc[k])) \notin Supported(doc[k])) =>
            /\ ~RaisedIn(k)
            /\ Passed(k) => rendered[k].appended = EmptyFragment

\* C6, amended: a !article cell whose number of values is not three ends the
\* conversion with the ValueError of the unpacking, and nothing is returned;
\* a !quote cell of three or more values does not fail: it is rewritten to a
\* blockquote of its first value, attributed to its second, the further
\* values are dropped, and the loop goes on with the cells after it.
C6_ArticleRaisesQuoteTakesTwo ==
    \A k \in 1..Len(doc) :
        (/\ doc[k].first \in {<<"!","a","r","t","i","c","l","e">>, <<"!","q","u","o","t","e">>}
         /\ doc[k].firstTag = "p" /\ doc[k].listTag = "ul"
         /\ Values(doc[k]) # <<>>
         /\ Len(Values(doc[k])) \notin Supported(doc[k])) =>
            IF doc[k].first = <<"!","a","r","t","i","c","l","e">>
            THEN ~Passed(k) /\ pc # "done" /\ (~Ahead(k) => RaisedIn(k) /\ err = "ValueError")
            ELSE /\ ~RaisedIn(k)
                 /\ Passed(k) =>
                     /\ rendered[k].appended =
                            [tag |-> "blockquote", quote |-> Values(doc[k])[1],
                             author_intro |-> Values(doc[k])[2]]
                     /\ rendered[k].first = None /\ rendered[k].items = <<>>
                     /\ (k < Len(doc) => pc = "loop" \/ Len(rendered) > k)

\* a !quote cell of three values was rewritten, and the cell after it too
C6_Witness ==
    /\ pc = "done"
    /\ Len(rendered) = 2
    /\ doc[1].first = <<"!","q","u","o","t","e">>
    /\ Len(Values(doc[1])) = 3
    /\ rendered[1].appended.tag = "blockquote"
    /\ rendered[2].appended.tag = "video"

\* C8: a cell from which no values are collected, because its first text is no
\* keyword or because every list item was diverted, is left as it was: its
\* paragraph and its list stay, nothing is appended, and it raises nothing.
C8_NoValuesNoRewrite ==
    \A k \in 1..Len(doc) :
        Values(doc[k]) = <<>> =>
            /\ ~RaisedIn(k)
            /\ Passed(k) => rendered[k] = doc[k]

\* a !mp4 cell all of whose items were diverted was passed and left as it was
C8_Witness ==
    /\ Len(rendered) >= 1
    /\ doc[1].first = <<"!","m","p","4">>
    /\ Len(doc[1].items) = 3
    /\ \E i \in 1..3 : doc[1].items[i] = <<"o","p","t","i","o","n","s",":","c","o","n","t","r","o","l","s">>
    /\ \E i \in 1..3 : doc[1].items[i] = <<"d","a","r","k">>
    /\ \E i \in 1..3 : doc[1].items[i] = <<"s","t","y","l","e",":","x">>
    /\ rendered[1] = doc[1]

\* the options: items of the !mp4 cells 1..k of the document, in their order
RECURSIVE OptionItems(_)
OptionItems(k) ==
    IF k = 0 THEN <<>>
    ELSE OptionItems(k - 1) \o
            (IF doc[k].first = <<"!","m","p","4">>
             THEN SelectSeq(doc[k].items,
                     LAMBDA text : /\ text # <<"d","a","r","k">>
                                   /\ ~StartsWith(text, <<"s","t","y","l","e",":">>)
                                   /\ Contains(text, <<"o","p","t","i","o","n","s",":">>))
             ELSE <<>>)

RECURSIVE Repeat(_, _)
Repeat(s, n) == IF n = 0 THEN <<>> ELSE s \o Repeat(s, n - 1)

\* an option string: the default tokens, loop and autoplay kept or not, and a
\* number of controls suffixes
OptionString(loop, autoplay, controls) ==
    (IF loop THEN <<"l","o","o","p"," ">> ELSE <<>>) \o (IF autoplay THEN <<"a","u","t","o","p","l","a","y"," ">> ELSE <<>>)
        \o <<"m","u","t","e","d"," ","p","l","a","y","s","i","n","l","i","n","e">> \o Repeat(<<" ","c","o","n","t","r","o","l","s">>, controls)

\* the option string a list of options: items asks for
Asked(items) ==
    OptionString(
        \A i \in 1..Len(items) :
            ~Contains(items[i], <<"n","o","-","l","o","o","p">>) /\ ~Contains(items[i], <<"n","o","_","l","o","o","p">>),
        \A i \in 1..Len(items) :
            ~Contains(items[i], <<"n","o","-","a","u","t","o","p","l","a","y">>) /\ ~Contains(items[i], <<"n","o","_","a","u","t","o","p","l","a","y">>),
        Cardinality({i \in 1..Len(items) : Contains(items[i], <<"c","o","n","t","r","o","l","s">>)}))

\* C7: the video tag of a !mp4 cell carries the option string that the
\* options: items of that cell and of all !mp4 cells before it ask for,
\* whether the cell has an options: item of its own or not.
C7_OptionsCarryOver ==
    \A k \in 1..Len(rendered) :
        rendered[k].appended.tag = "video" =>
            rendered[k].appended.options = Asked(OptionItems(k))

\* the third cell has no options: item and its video tag has the options the
\* first cell asked for
C7_Witness ==
    /\ Len(rendered) = 3
    /\ doc[1] = Cell(<<"!","m","p","4">>, "p", "ul", <<<<"A",".","m","p","4">>, <<"o","p","t","i","o","n","s",":","n","o","-","l","o","o","p">>>>)
    /\ doc[2] = Cell(<<"!","q","u","o","t","e">>, "p", "ul", <<<<"o","p","t","i","o","n","s",":","n","o","-","l","o","o","p"," ","c","o","n","t","r","o","l","s">>>>)
    /\ doc[3] = Cell(<<"!","m","p","4">>, "p", "ul", <<<<"A",".","m","p","4">>>>)
    /\ rendered[3].appended.tag = "video"
    /\ rendered[3].appended.options = <<"a","u","t","o","p","l","a","y"," ","m","u","t","e","d"," ","p","l","a","y","s","i","n","l","i","n","e">>

\* the video tags among the cells the loop has passed
Videos == {k \in 1..Len(rendered) : rendered[k].appended.tag = "video"}

\* C10: the option string is always the default tokens with loop and
\* autoplay kept or removed, followed by controls suffixes; a video tag after
\* one without loop (autoplay) is without loop (autoplay); every video tag
\* has muted and playsinline.
C10_OptionStringShape ==
    /\ \E loop \in BOOLEAN, autoplay \in BOOLEAN, controls \in 0..Len(mp4_options) :
          mp4_options = OptionString(loop, autoplay, controls)
    /\ \A k \in Videos :
          /\ \E loop \in BOOLEAN, autoplay \in BOOLEAN, controls \in 0..Len(mp4_options) :
                rendered[k].appended.options = OptionString(loop, autoplay, controls)
          /\ Contains(rendered[k].appended.options, <<"m","u","t","e","d">>)
          /\ Contains(rendered[k].appended.options, <<"p","l","a","y","s","i","n","l","i","n","e">>)
    /\ \A j \in Videos, k \in Videos :
          j < k =>
            /\ ~Contains(rendered[j].appended.options, <<"l","o","o","p">>)
                   => ~Contains(rendered[k].appended.options, <<"l","o","o","p">>)
            /\ ~Contains(rendered[j].appended.options, <<"a","u","t","o","p","l","a","y">>)
                   => ~Contains(rendered[k].appended.options, <<"a","u","t","o","p","l","a","y">>)

\* a video tag without loop and autoplay and with two controls, after one
\* with the default options
C10_Witness ==
    /\ Len(rendered) = 3
    /\ rendered[1].appended.tag = "video"
    /\ rendered[1].appended.options = DefaultMp4Options
    /\ rendered[3].appended.tag = "video"
    /\ rendered[3].appended.options = <<"m","u","t","e","d"," ","p","l","a","y","s","i","n","l","i","n","e"," ","c","o","n","t","r","o","l","s"," ","c","o","n","t","r","o","l","s">>

=============================================================================
